---------------------------- MODULE Spec2Model ----------------------------
(***************************************************************************)
(* State-machine model of the client-side consistency layer of eburon-pod. *)
(*                                                                         *)
(*   - the chat session of the Chatbot component (initChat, handleSend,    *)
(*     handleClearHistory) with the gateway wrappers createChat and        *)
(*     sendMessageToChat, run against the chat_history table;              *)
(*   - the media service (saveImage, getUserImages, deleteImage), run      *)
(*     against the user_images table and the user_images blob bucket;      *)
(*   - the Gallery component (fetchImages, handleDelete), which calls the  *)
(*     media service.  Its delete button exists only for a displayed image *)
(*     and is modelled so; what runs after an await of the component runs  *)
(*     before any other task.                                              *)
(*                                                                         *)
(* Every await of the source is a point where another handler may run, so  *)
(* each handler is split into one action per synchronous segment.  The     *)
(* outcome of each remote call (success, or an error with a provider       *)
(* message) is chosen by the environment.  The handlers are exercised as   *)
(* operations that may be called at any time with any input: the           *)
(* `disabled` attributes of the form controls are presentation and are not *)
(* relied upon.                                                            *)
(*                                                                         *)
(* A text is a sequence of tokens (a typed character for the input box, a  *)
(* whole fixed phrase for a literal of the source), so that concatenation, *)
(* trim and includes are computed rather than assumed.                     *)
(***************************************************************************)
EXTENDS Integers, Sequences, FiniteSets, TLC

----------------------------------------------------------------------------
(* Bounds of the model *)

\* calls of handleSend (accepted ones) and of handleClearHistory, changes
\* of the authenticated user and fresh mounts, in one run
MaxChatCalls == 2
\* calls of the media service (saveImage, getUserImages, deleteImage) in one run
MaxMediaCalls == 3

----------------------------------------------------------------------------
(* Values *)

\* the authenticated user of the mounted session, and another tenant
SessionUser == "u1"
OtherUser == "u2"
Users == {SessionUser, OtherUser}

\* what the input box may hold (typed characters; " " is whitespace)
InputTexts == {<< >>, <<" ">>, <<"h", " ">>}

\* what fetch('/knowledge_base.txt') may deliver; "" when it fails
KnowledgeTexts == {"", "kb"}

\* a reply text of the model
GatewayReply == <<"pong">>

\* provider messages of a failed chat_history read
ReadErrorMessages ==
    { <<"relation \"public.chat_history\" ", "does not exist">>,
      <<"Could not find the table", " 'public.chat_history' in the schema cache">>,
      <<"JWT expired">> }

GreetingText == <<"Hello! This is EBURON. How can I help you today?">>
SetupIncompleteText ==
    <<"DATABASE SETUP INCOMPLETE:\n\nThe 'chat_history' table is missing from your Supabase database. Please execute the required SQL script provided in the documentation in your Supabase project's SQL Editor to create the necessary tables.">>
GenericNoticePrefix == "Hello! I couldn't load previous messages due to an error: "
ClearedText == <<"History cleared. How can I help you?">>
HandleSendFallbackText == <<"Sorry, I couldn't get a response. Please try again.">>
GatewayErrorText == <<"Sorry, I encountered an error. Please try again.">>

Message(sender, text) == [sender |-> sender, text |-> text]

\* a functional update that puts the new turn first
AppendTurnPrepending(prev, m) == <<m>> \o prev

\* setMessages((prev) => [...prev, m])
AppendTurn(prev, m) == Append(prev, m)

ChatRow(uid, sender, text) == [user_id |-> uid, sender |-> sender, text |-> text]

\* contents of chat_history when the component mounts
InitialChatRows ==
    { <<ChatRow(OtherUser, "user", <<"x">>)>>,
      <<ChatRow(OtherUser, "user", <<"x">>),
        ChatRow(SessionUser, "user", <<"h">>), ChatRow(SessionUser, "bot", GatewayReply)>>,
      <<ChatRow(SessionUser, "user", <<"h">>), ChatRow(OtherUser, "user", <<"x">>),
        ChatRow(SessionUser, "system", <<"note">>)>> }

\* prompts of saved images
PromptTexts == {<<"cat">>, <<"dog">>}

\* provider messages of the failing calls of the media service
UploadErrorMessage == <<"The resource already exists">>
InsertErrorMessage == <<"new row violates row-level security policy">>
RemoveErrorMessage == <<"storage unavailable">>
SelectErrorMessage == <<"relation \"public.user_images\" does not exist">>
RowDeleteErrorMessage == <<"connection reset">>

----------------------------------------------------------------------------
(* Pure helpers *)

RECURSIVE TrimStart(_)
TrimStart(s) ==
    IF s = << >> THEN << >>
    ELSE IF Head(s) = " " THEN TrimStart(Tail(s)) ELSE s

RECURSIVE TrimEnd(_)
TrimEnd(s) ==
    IF s = << >> THEN << >>
    ELSE IF s[Len(s)] = " " THEN TrimEnd(SubSeq(s, 1, Len(s) - 1)) ELSE s

\* String.prototype.trim
Trim(s) == TrimEnd(TrimStart(s))

\* String.prototype.includes, at the granularity of the tokens
Includes(msg, phrase) == \E i \in 1..Len(msg) : msg[i] = phrase

\* .from('chat_history').select('sender, text').eq('user_id', uid).order('created_at')
SelectHistory(rows, uid) ==
    LET mine == SelectSeq(rows, LAMBDA r : r.user_id = uid)
    IN  [i \in 1..Len(mine) |-> Message(mine[i].sender, mine[i].text)]

\* .from('chat_history').delete().eq('user_id', uid)
DeleteHistory(rows, uid) == SelectSeq(rows, LAMBDA r : r.user_id # uid)

\* only the order of the creation times matters: they are kept as ranks
Ranks(stamps) ==
    [i \in DOMAIN stamps |->
        1 + Cardinality({stamps[j] : j \in {k \in DOMAIN stamps : stamps[k] < stamps[i]}})]

\* created_at of the rows the delete leaves
DeleteStamps(rows, stamps, uid) ==
    LET keep == SelectSeq([i \in 1..Len(rows) |-> i], LAMBDA i : rows[i].user_id # uid)
    IN  Ranks([k \in 1..Len(keep) |-> stamps[keep[k]]])

\* created_at of the rows of one insert: the table stamps the rows of one
\* statement with the time of the statement, later than every earlier one
BatchStamp(stamps) ==
    IF stamps = << >> THEN 1
    ELSE 1 + CHOOSE m \in {stamps[i] : i \in DOMAIN stamps} :
                \A i \in DOMAIN stamps : stamps[i] <= m

RECURSIVE OrdersOf(_, _)
\* the orders of the rows S in which created_at never descends; rows of
\* equal created_at come in either order
OrdersOf(S, stamps) ==
    IF S = {} THEN {<< >>}
    ELSE UNION {{<<i>> \o o : o \in OrdersOf(S \ {i}, stamps)} :
                    i \in {j \in S : \A k \in S : stamps[j] <= stamps[k]}}

\* .order('created_at', { ascending: true }): what the read may return
ReadHistory(rows, stamps, uid) ==
    {SelectHistory([k \in 1..Len(o) |-> rows[o[k]]], uid) :
        o \in OrdersOf(DOMAIN rows, stamps)}

\* a mapping that knows only the sender 'bot' as the model
FormatHistoryBotOnly(data) ==
    [i \in 1..Len(data) |->
        [role |-> IF data[i].sender = "bot" THEN "model" ELSE "user",
         text |-> data[i].text]]

\* the role-tagged shape of the gateway
FormatHistory(data) ==
    [i \in 1..Len(data) |->
        [role |-> IF data[i].sender = "user" THEN "user" ELSE "model",
         text |-> data[i].text]]

\* ai.chats.create: a new context object; sys = "" stands for no config, and
\* an omitted history is the empty one
createChat(systemInstruction, history) ==
    [sys |-> systemInstruction, seed |-> history, history |-> history]

\* sendMessageToChat: every failure of chat.sendMessage is caught and turned
\* into a returned text; the wrapper never throws
sendMessageToChat(outcome) ==
    IF outcome = "ok"
    THEN [threw |-> FALSE, text |-> GatewayReply]
    ELSE [threw |-> FALSE, text |-> GatewayErrorText]

\* a test that knows only the Postgres wording
IsTableMissingPostgresOnly(msg) == Includes(msg, "does not exist")

\* the error branch of initChat
IsTableMissing(msg) ==
    Includes(msg, "does not exist") \/ Includes(msg, "Could not find the table")

\* the transcript initChat installs for a result {data, error} of the read
InitialTranscript(data, err) ==
    IF err # << >>
    THEN IF IsTableMissing(err)
         THEN <<Message("bot", SetupIncompleteText)>>
         ELSE <<Message("bot", <<GenericNoticePrefix>> \o err)>>
    ELSE IF Len(data) > 0
         THEN data
         ELSE <<Message("bot", GreetingText)>>

----------------------------------------------------------------------------
(* Pure helpers of the media service *)

\* `${userId}/${new Date().toISOString()}.png`
FilePath(userId, now) == <<userId, "/", now, ".png">>

\* new Error(`${prefix}${error.message}`), as the rejection of a call
Rejected(prefix, msg) == [state |-> "rejected", message |-> <<prefix>> \o msg, value |-> << >>]

Resolved(v) == [state |-> "resolved", message |-> << >>, value |-> v]

Pending == [state |-> "pending", message |-> << >>, value |-> << >>]

\* a row that forgets the prompt
NewImageRowWithoutPrompt(id, userId, prompt, path) ==
    [id |-> id, user_id |-> userId, prompt |-> << >>, storage_path |-> path,
     created_at |-> id]

\* .insert({user_id, prompt, storage_path}); id and created_at are the table's
NewImageRow(id, userId, prompt, path) ==
    [id |-> id, user_id |-> userId, prompt |-> prompt, storage_path |-> path,
     created_at |-> id]

\* the image the other tenant saved before the session began
OtherUserPath == FilePath(OtherUser, 0)

Reverse(s) == [i \in 1..Len(s) |-> s[Len(s) + 1 - i]]

\* .select('id, prompt, storage_path, created_at').eq('user_id', userId)
\*  .order('created_at', { ascending: false })
SelectImages(rows, userId) ==
    LET mine == Reverse(SelectSeq(rows, LAMBDA r : r.user_id = userId))
    IN  [i \in 1..Len(mine) |->
            [id |-> mine[i].id, prompt |-> mine[i].prompt,
             storage_path |-> mine[i].storage_path, created_at |-> mine[i].created_at]]

\* a delete of rows that is filtered by the path alone
DeleteImageRowsByPathOnly(rows, userId, storagePath) ==
    SelectSeq(rows, LAMBDA r : r.storage_path # storagePath)

\* .delete().eq('user_id', userId).eq('storage_path', storagePath)
DeleteImageRows(rows, userId, storagePath) ==
    SelectSeq(rows, LAMBDA r : ~(r.user_id = userId /\ r.storage_path = storagePath))

\* what createSignedUrl returns: {data: {signedUrl}, error}
SignedOk(path) == [error |-> FALSE, signedUrl |-> <<"https://signed/">> \o path]
SignedFailed == [error |-> TRUE, signedUrl |-> << >>]
SignedPending == [error |-> FALSE, signedUrl |-> << >>]

WithUrl(image, url) ==
    [id |-> image.id, prompt |-> image.prompt, storage_path |-> image.storage_path,
     created_at |-> image.created_at, url |-> url]

\* a gallery that leaves out the rows whose URL could not be signed
GalleryDroppingFailed(imagesData, signedUrlResults) ==
    LET all == [i \in 1..Len(imagesData) |->
                    WithUrl(imagesData[i], signedUrlResults[i].signedUrl)]
    IN  SelectSeq(all, LAMBDA e : e.url # << >>)

\* imagesData.map((image, index) => ...): one entry per row, url '' on failure
Gallery(imagesData, signedUrlResults) ==
    [i \in 1..Len(imagesData) |->
        IF signedUrlResults[i].error \/ signedUrlResults[i].signedUrl = << >>
        THEN WithUrl(imagesData[i], << >>)
        ELSE WithUrl(imagesData[i], signedUrlResults[i].signedUrl)]

----------------------------------------------------------------------------
(* State *)

VARIABLES
    \* the media collaborators
    blobs,       \* the paths of the objects in the user_images bucket
    imageRows,   \* the user_images table, in creation order
    nextImageId, \* the id the table gives the next row
    clock,       \* the reading of the clock
    \* the calls of the media service, by number
    saves,
    lists,
    deletes,
    \* React state of Chatbot
    chat,        \* index into contexts of the live context, 0 for null
    messages,    \* the transcript
    input,       \* the input box
    isLoading,
    \* the remote collaborators
    contexts,    \* every context object created so far, in creation order
    chatRows,    \* the chat_history table, in creation order
    chatStamps,  \* created_at of every row of chat_history
    \* the asynchronous calls
    initPc,      \* "fetchKb", "select", "done"
    initKb,      \* the knowledge text initChat fetched
    initResult,  \* the {data, error} the read of initChat returned
    sends,       \* the accepted handleSend calls, by number
    clears,      \* the handleClearHistory calls, by number
    \* whether the step taken last was a call of handleSend, and its verdict
    lastOp,
    \* the authenticated user
    user,        \* the user useAuth delivers to the mounted Chatbot
    reinits,     \* the calls of initChat made after a change of user, by number
    owners,      \* for every context object, the user it was created for
    \* React state of Gallery
    images,           \* the displayed list
    galleryIsLoading, \* isLoading of Gallery
    error,            \* the message shown in place of the grid, << >> for null
    \* the calls of the handlers of Gallery, by number
    fetches,          \* the calls of fetchImages
    handleDeletes,    \* the confirmed calls of handleDelete
    alerts            \* the messages alert() has shown

chatVars == <<chat, messages, input, isLoading, contexts, chatRows, chatStamps,
              initPc, initKb, initResult, sends, clears, lastOp>>

mediaVars == <<blobs, imageRows, nextImageId, clock, saves, lists, deletes>>

authVars == <<user, reinits, owners>>

galleryVars == <<images, galleryIsLoading, error, fetches, handleDeletes, alerts>>

vars == <<chatVars, mediaVars, authVars, galleryVars>>

NoResult == [data |-> << >>, err |-> << >>]

\* the tables and the bucket when the session begins: one image of the other
\* tenant
InitStore ==
    /\ blobs = {OtherUserPath}
    /\ imageRows = <<NewImageRow(1, OtherUser, <<"fox">>, OtherUserPath)>>
    /\ nextImageId = 2
    /\ clock = 1

\* useState([]), useState(true), useState(null) of Gallery, before its effect
InitGallery ==
    /\ images = << >>
    /\ galleryIsLoading = TRUE
    /\ error = << >>
    /\ fetches = << >>
    /\ handleDeletes = << >>
    /\ alerts = << >>

\* the components after their construction, and no call made yet
InitComponents ==
    /\ chat = 0
    /\ messages = << >>
    /\ input = << >>
    /\ isLoading = TRUE          \* initChat has run up to its first await
    /\ contexts = << >>
    /\ chatRows \in InitialChatRows
    /\ chatStamps = [i \in DOMAIN chatRows |-> i]   \* each saved at a time of its own
    /\ initPc = "fetchKb"
    /\ initKb = ""
    /\ initResult = NoResult
    /\ sends = << >>
    /\ clears = << >>
    /\ lastOp = "-"
    /\ saves = << >>
    /\ lists = << >>
    /\ deletes = << >>
    /\ user = SessionUser
    /\ reinits = << >>
    /\ owners = << >>
    /\ InitGallery

Init == InitComponents /\ InitStore

----------------------------------------------------------------------------
(* initChat *)

\* the fetch of the knowledge base returns; the read of chat_history is issued
InitFetchKb ==
    /\ initPc = "fetchKb"
    /\ \E kb \in KnowledgeTexts : initKb' = kb
    /\ initPc' = "select"
    /\ lastOp' = "-"
    /\ UNCHANGED <<chat, messages, input, isLoading, contexts, chatRows, chatStamps,
                   initResult, sends, clears,
                   mediaVars, authVars,
                   galleryVars>>

\* the read returns {data, error}: the context is created and the transcript set
InitComplete(data, err) ==
    /\ initResult' = [data |-> data, err |-> err]
    /\ contexts' = Append(contexts, createChat(initKb, FormatHistory(data)))
    /\ chat' = Len(contexts) + 1
    /\ messages' = InitialTranscript(data, err)
    /\ isLoading' = FALSE
    /\ initPc' = "done"
    /\ owners' = Append(owners, SessionUser)
    /\ lastOp' = "-"
    /\ UNCHANGED <<input, chatRows, chatStamps, initKb, sends, clears,
                   mediaVars, user, reinits,
                   galleryVars>>

InitSelect ==
    /\ initPc = "select"
    /\ \/ \E data \in ReadHistory(chatRows, chatStamps, SessionUser) :
                InitComplete(data, << >>)
       \/ \E m \in ReadErrorMessages : InitComplete(<< >>, m)

----------------------------------------------------------------------------
(* the input box *)

SetInput ==
    /\ \E t \in InputTexts : input' = t
    /\ input' # input
    /\ lastOp' = "-"
    /\ UNCHANGED <<chat, messages, isLoading, contexts, chatRows, chatStamps,
                   initPc, initKb, initResult, sends, clears,
                   mediaVars, authVars,
                   galleryVars>>

----------------------------------------------------------------------------
(* handleSend *)

\* a guard that forgets the loading flag
SendRejectedIgnoringLoading == Trim(input) = << >> \/ chat = 0

\* a guard that tests the input without trimming it
SendRejectedWithoutTrim == input = << >> \/ chat = 0 \/ isLoading

\* if (!input.trim() || !chat || isLoading || !user) return;
SendRejected == Trim(input) = << >> \/ chat = 0 \/ isLoading

\* the accepted calls of handleSend, the calls of handleClearHistory and the
\* changes of user so far
ChatCalls == Len(sends) + Len(clears) + Len(reinits)

\* some call of handleSend or initChat has not finished
Busy == initPc # "done" \/ \E s \in DOMAIN sends : sends[s].pc # "done"

\* bookkeeping: the resets still running see another handler start
MarkOverlapped(cs) ==
    [c \in DOMAIN cs |->
        IF cs[c].pc # "done" THEN [cs[c] EXCEPT !.overlapped = TRUE] ELSE cs[c]]

NewSend ==
    [pc |-> "gateway", ctx |-> chat, user |-> user, text |-> input,
     gw |-> "pending", reply |-> << >>, insert |-> "none",
     after |-> {}]   \* the resets that had succeeded when the rows were inserted

\* the call of handleSend up to its first await
HandleSend ==
    IF SendRejected
    THEN /\ lastOp' = "handleSend.rejected"
         /\ UNCHANGED <<chat, messages, input, isLoading, contexts, chatRows, chatStamps,
                        initPc, initKb, initResult, sends, clears,
                   mediaVars, authVars,
                   galleryVars>>
    ELSE /\ ChatCalls < MaxChatCalls
         /\ messages' = AppendTurn(messages, Message("user", input))
         /\ input' = << >>
         /\ isLoading' = TRUE
         /\ sends' = Append(sends, NewSend)
         /\ clears' = MarkOverlapped(clears)
         /\ lastOp' = "handleSend.accepted"
         /\ UNCHANGED <<chat, contexts, chatRows, chatStamps, initPc, initKb, initResult,
                   mediaVars, authVars,
                   galleryVars>>

\* what the context object records of an exchange the model answered
Exchange(text, reply) ==
    <<[role |-> "user", text |-> text], [role |-> "model", text |-> reply]>>

\* sendMessageToChat returns (or throws): the bot turn is appended and the
\* insert of the exchange is issued; the catch branch appends the fallback
SendGateway(s, outcome) ==
    LET r == sendMessageToChat(outcome)
        c == sends[s].ctx
    IN  /\ sends[s].pc = "gateway"
        /\ contexts' = IF outcome = "ok"
                       THEN [contexts EXCEPT ![c].history =
                                @ \o Exchange(sends[s].text, GatewayReply)]
                       ELSE contexts
        /\ IF r.threw
           THEN /\ messages' = AppendTurn(messages, Message("bot", HandleSendFallbackText))
                /\ isLoading' = FALSE
                /\ sends' = [sends EXCEPT ![s].pc = "done",
                                          ![s].gw = IF outcome = "ok" THEN "ok" ELSE "failed",
                                          ![s].reply = HandleSendFallbackText]
           ELSE /\ messages' = AppendTurn(messages, Message("bot", r.text))
                /\ isLoading' = isLoading
                /\ sends' = [sends EXCEPT ![s].pc = "insert",
                                          ![s].gw = IF outcome = "ok" THEN "ok" ELSE "failed",
                                          ![s].reply = r.text,
                                          ![s].insert = "issued"]
        /\ lastOp' = "-"
        /\ UNCHANGED <<chat, input, chatRows, chatStamps, initPc, initKb, initResult, clears,
                   mediaVars, authVars,
                   galleryVars>>

SendGatewayReturn == \E s \in DOMAIN sends : \E o \in {"ok", "fail"} : SendGateway(s, o)

\* a batch with the reply before the question
ExchangeRowsBotFirst(uid, text, reply) ==
    <<ChatRow(uid, "bot", reply), ChatRow(uid, "user", text)>>

\* the two rows of one exchange, as handleSend inserts them
ExchangeRows(uid, text, reply) ==
    <<ChatRow(uid, "user", text), ChatRow(uid, "bot", reply)>>

\* the resets whose delete has succeeded
SucceededResets == {c \in DOMAIN clears : clears[c].result = "ok"}

\* a send that tells the user when the exchange could not be saved
SendInsertReportingFailure(s, ok) ==
    /\ sends[s].pc = "insert"
    /\ chatRows' = IF ok
                   THEN chatRows \o ExchangeRows(sends[s].user, sends[s].text, sends[s].reply)
                   ELSE chatRows
    /\ chatStamps' = IF ok
                     THEN chatStamps \o <<BatchStamp(chatStamps), BatchStamp(chatStamps)>>
                     ELSE chatStamps
    /\ messages' = IF ok THEN messages
                   ELSE AppendTurn(messages, Message("bot", HandleSendFallbackText))
    /\ sends' = [sends EXCEPT ![s].pc = "done",
                              ![s].insert = IF ok THEN "ok" ELSE "error",
                              ![s].after = IF ok THEN SucceededResets ELSE @]
    /\ isLoading' = FALSE
    /\ lastOp' = "-"
    /\ UNCHANGED <<chat, input, contexts, initPc, initKb, initResult, clears,
                   mediaVars, authVars,
                   galleryVars>>

\* a send without its finally: a failed insert leaves the loading flag on
SendInsertWithoutFinally(s, ok) ==
    /\ sends[s].pc = "insert"
    /\ chatRows' = IF ok
                   THEN chatRows \o ExchangeRows(sends[s].user, sends[s].text, sends[s].reply)
                   ELSE chatRows
    /\ chatStamps' = IF ok
                     THEN chatStamps \o <<BatchStamp(chatStamps), BatchStamp(chatStamps)>>
                     ELSE chatStamps
    /\ sends' = [sends EXCEPT ![s].pc = "done",
                              ![s].insert = IF ok THEN "ok" ELSE "error",
                              ![s].after = IF ok THEN SucceededResets ELSE @]
    /\ isLoading' = IF ok THEN FALSE ELSE isLoading
    /\ lastOp' = "-"
    /\ UNCHANGED <<chat, messages, input, contexts, initPc, initKb, initResult, clears,
                   mediaVars, authVars,
                   galleryVars>>

\* the insert returns {error}; finally clears the loading flag
SendInsert(s, ok) ==
    /\ sends[s].pc = "insert"
    /\ chatRows' = IF ok
                   THEN chatRows \o ExchangeRows(sends[s].user, sends[s].text, sends[s].reply)
                   ELSE chatRows
    /\ chatStamps' = IF ok
                     THEN chatStamps \o <<BatchStamp(chatStamps), BatchStamp(chatStamps)>>
                     ELSE chatStamps
    /\ sends' = [sends EXCEPT ![s].pc = "done",
                              ![s].insert = IF ok THEN "ok" ELSE "error",
                              ![s].after = IF ok THEN SucceededResets ELSE @]
    /\ isLoading' = FALSE
    /\ lastOp' = "-"
    /\ UNCHANGED <<chat, messages, input, contexts, initPc, initKb, initResult, clears,
                   mediaVars, authVars,
                   galleryVars>>

SendInsertReturn == \E s \in DOMAIN sends : \E ok \in BOOLEAN : SendInsert(s, ok)

----------------------------------------------------------------------------
(* handleClearHistory *)

\* overlapped: whether a call of handleSend or initChat ran while this reset did
\* sendsBefore: the sends accepted before the reset was called;
\* sendsAtClear, oldCtx: the sends accepted and the live context when the
\* reset replaced the transcript
NewClear == [pc |-> "delete", user |-> user, result |-> "pending", alerted |-> FALSE,
             overlapped |-> Busy,
             sendsBefore |-> Len(sends), sendsAtClear |-> 0, oldCtx |-> 0]

\* the call of handleClearHistory: the delete is issued
HandleClearHistory ==
    /\ ChatCalls < MaxChatCalls
    /\ clears' = Append(clears, NewClear)
    /\ lastOp' = "-"
    /\ UNCHANGED <<chat, messages, input, isLoading, contexts, chatRows, chatStamps,
                   initPc, initKb, initResult, sends,
                   mediaVars, authVars,
                   galleryVars>>

\* a reset whose error branch lacks its return
ClearDeleteWithoutReturn(c, ok) ==
    /\ clears[c].pc = "delete"
    /\ chatRows' = IF ok THEN DeleteHistory(chatRows, clears[c].user) ELSE chatRows
    /\ chatStamps' = IF ok THEN DeleteStamps(chatRows, chatStamps, clears[c].user)
                     ELSE chatStamps
    /\ messages' = <<Message("bot", ClearedText)>>
    /\ clears' = [clears EXCEPT ![c].pc = "fetch",
                                ![c].result = IF ok THEN "ok" ELSE "failed",
                                ![c].alerted = ~ok,
                                ![c].sendsAtClear = Len(sends), ![c].oldCtx = chat]
    /\ lastOp' = "-"
    /\ UNCHANGED <<chat, input, isLoading, contexts, initPc, initKb, initResult, sends,
                   mediaVars, authVars,
                   galleryVars>>

\* the delete returns {error}
ClearDelete(c, ok) ==
    /\ clears[c].pc = "delete"
    /\ IF ok
       THEN /\ chatRows' = DeleteHistory(chatRows, clears[c].user)
            /\ chatStamps' = DeleteStamps(chatRows, chatStamps, clears[c].user)
            /\ messages' = <<Message("bot", ClearedText)>>
            /\ clears' = [clears EXCEPT ![c].pc = "fetch", ![c].result = "ok",
                                        ![c].sendsAtClear = Len(sends),
                                        ![c].oldCtx = chat]
            /\ lastOp' = "-"
       ELSE /\ chatRows' = chatRows
            /\ chatStamps' = chatStamps
            /\ messages' = messages
            /\ clears' = [clears EXCEPT ![c].pc = "done", ![c].result = "failed",
                                        ![c].alerted = TRUE]
            /\ lastOp' = "-"
    /\ UNCHANGED <<chat, input, isLoading, contexts, initPc, initKb, initResult, sends,
                   mediaVars, authVars,
                   galleryVars>>

ClearDeleteReturn == \E c \in DOMAIN clears : \E ok \in BOOLEAN : ClearDelete(c, ok)

\* the fetch of the knowledge base returns: a fresh context replaces the live one
ClearFetch(c, kb) ==
    /\ clears[c].pc = "fetch"
    /\ contexts' = Append(contexts, createChat(kb, << >>))
    /\ chat' = Len(contexts) + 1
    /\ owners' = Append(owners, clears[c].user)
    /\ clears' = [clears EXCEPT ![c].pc = "done"]
    /\ lastOp' = "-"
    /\ UNCHANGED <<messages, input, isLoading, chatRows, chatStamps, initPc, initKb, initResult, sends,
                   mediaVars, user, reinits,
                   galleryVars>>

ClearFetchReturn == \E c \in DOMAIN clears : \E kb \in KnowledgeTexts : ClearFetch(c, kb)

----------------------------------------------------------------------------
(* saveImage *)

\* the calls of the media service made so far
MediaCalls == Len(saves) + Len(lists) + Len(deletes)

NewSave(userId, prompt, now) ==
    [user |-> userId, prompt |-> prompt, path |-> FilePath(userId, now),
     pc |-> "upload", upload |-> "issued", insert |-> "none",
     removed |-> << >>, cleanup |-> "none", result |-> Pending]

\* the call of saveImage: the path is computed and the upload issued
SaveImage ==
    /\ MediaCalls < MaxMediaCalls
    /\ \E prompt \in PromptTexts : \E now \in {clock, clock + 1} :
            /\ clock' = now
            /\ saves' = Append(saves, NewSave(SessionUser, prompt, now))
    /\ UNCHANGED <<blobs, imageRows, nextImageId, lists, deletes, chatVars, authVars,
                   galleryVars>>

\* a save that goes on to the insert whatever the upload returned
SaveUploadInsertingAnyway(s, ok) ==
    /\ saves[s].pc = "upload"
    /\ blobs' = IF ok THEN blobs \cup {saves[s].path} ELSE blobs
    /\ saves' = [saves EXCEPT ![s].pc = "insert",
                              ![s].upload = IF ok THEN "ok" ELSE "error",
                              ![s].insert = "issued"]
    /\ UNCHANGED <<imageRows, nextImageId, clock, lists, deletes, chatVars, authVars,
                   galleryVars>>

\* the upload returns {error}; the insert of the row is issued
SaveUpload(s, ok) ==
    /\ saves[s].pc = "upload"
    /\ IF ok
       THEN /\ blobs' = blobs \cup {saves[s].path}
            /\ saves' = [saves EXCEPT ![s].pc = "insert", ![s].upload = "ok",
                                      ![s].insert = "issued"]
       ELSE /\ blobs' = blobs
            /\ saves' = [saves EXCEPT ![s].pc = "done", ![s].upload = "error",
                            ![s].result = Rejected("Failed to upload image to storage: ",
                                                   UploadErrorMessage)]
    /\ UNCHANGED <<imageRows, nextImageId, clock, lists, deletes, chatVars, authVars,
                   galleryVars>>

SaveUploadReturn == \E s \in DOMAIN saves : \E ok \in BOOLEAN : SaveUpload(s, ok)

\* a save that leaves the orphan where it is
SaveInsertWithoutCleanup(s, ok) ==
    /\ saves[s].pc = "insert"
    /\ IF ok
       THEN /\ imageRows' = Append(imageRows,
                    NewImageRow(nextImageId, saves[s].user, saves[s].prompt, saves[s].path))
            /\ nextImageId' = nextImageId + 1
            /\ saves' = [saves EXCEPT ![s].pc = "done", ![s].insert = "ok",
                                      ![s].result = Resolved(<< >>)]
       ELSE /\ imageRows' = imageRows
            /\ nextImageId' = nextImageId
            /\ saves' = [saves EXCEPT ![s].pc = "done", ![s].insert = "error",
                            ![s].result = Rejected("Failed to save image metadata: ",
                                                   InsertErrorMessage)]
    /\ UNCHANGED <<blobs, clock, lists, deletes, chatVars, authVars,
                   galleryVars>>

\* the insert returns {error}; on an error the removal of the uploaded
\* object is issued
SaveInsert(s, ok) ==
    /\ saves[s].pc = "insert"
    /\ IF ok
       THEN /\ imageRows' = Append(imageRows,
                    NewImageRow(nextImageId, saves[s].user, saves[s].prompt, saves[s].path))
            /\ nextImageId' = nextImageId + 1
            /\ saves' = [saves EXCEPT ![s].pc = "done", ![s].insert = "ok",
                                      ![s].result = Resolved(<< >>)]
       ELSE /\ imageRows' = imageRows
            /\ nextImageId' = nextImageId
            /\ saves' = [saves EXCEPT ![s].pc = "cleanup", ![s].insert = "error",
                                      ![s].removed = Append(@, <<saves[s].path>>),
                                      ![s].cleanup = "issued"]
    /\ UNCHANGED <<blobs, clock, lists, deletes, chatVars, authVars,
                   galleryVars>>

SaveInsertReturn == \E s \in DOMAIN saves : \E ok \in BOOLEAN : SaveInsert(s, ok)

\* a save that reports the error of the removal when the removal fails
SaveCleanupSurfacingRemoveError(s, ok) ==
    /\ saves[s].pc = "cleanup"
    /\ blobs' = IF ok THEN blobs \ {saves[s].path} ELSE blobs
    /\ saves' = [saves EXCEPT ![s].pc = "done",
                              ![s].cleanup = IF ok THEN "ok" ELSE "error",
                              ![s].result =
                                  IF ok THEN Rejected("Failed to save image metadata: ",
                                                      InsertErrorMessage)
                                  ELSE Rejected("Failed to delete image from storage: ",
                                                RemoveErrorMessage)]
    /\ UNCHANGED <<imageRows, nextImageId, clock, lists, deletes, chatVars, authVars,
                   galleryVars>>

\* the removal returns (its result is not looked at); the insert error is thrown
SaveCleanup(s, ok) ==
    /\ saves[s].pc = "cleanup"
    /\ blobs' = IF ok THEN blobs \ {saves[s].path} ELSE blobs
    /\ saves' = [saves EXCEPT ![s].pc = "done",
                              ![s].cleanup = IF ok THEN "ok" ELSE "error",
                              ![s].result = Rejected("Failed to save image metadata: ",
                                                     InsertErrorMessage)]
    /\ UNCHANGED <<imageRows, nextImageId, clock, lists, deletes, chatVars, authVars,
                   galleryVars>>

SaveCleanupReturn == \E s \in DOMAIN saves : \E ok \in BOOLEAN : SaveCleanup(s, ok)

----------------------------------------------------------------------------
(* getUserImages *)

\* the saves that had resolved when the listing was called
ResolvedSaves == {s \in DOMAIN saves : saves[s].result.state = "resolved"}

NewList(userId) ==
    [user |-> userId, pc |-> "select", select |-> "issued", imagesData |-> << >>,
     signedUrlResults |-> << >>, waiting |-> {}, requested |-> << >>,
     completed |-> << >>,   \* the signed-URL requests in the order they returned
     after |-> ResolvedSaves, result |-> Pending]

\* the call of getUserImages: the read of the rows is issued
GetUserImages ==
    /\ MediaCalls < MaxMediaCalls
    /\ lists' = Append(lists, NewList(SessionUser))
    /\ UNCHANGED <<blobs, imageRows, nextImageId, clock, saves, deletes, chatVars, authVars,
                   galleryVars>>

\* a listing that takes a failed read for an empty gallery
ListSelectSwallowingError(l, ok) ==
    /\ lists[l].pc = "select"
    /\ lists' = [lists EXCEPT ![l].pc = "done",
                              ![l].select = IF ok THEN "ok" ELSE "error",
                              ![l].result = Resolved(<< >>)]
    /\ UNCHANGED <<blobs, imageRows, nextImageId, clock, saves, deletes, chatVars, authVars,
                   galleryVars>>

\* the read returns {data, error}; one signed URL per row is requested
ListSelect(l, ok) ==
    /\ lists[l].pc = "select"
    /\ LET data == SelectImages(imageRows, lists[l].user)
       IN  lists' =
             IF ~ok
             THEN [lists EXCEPT ![l].pc = "done", ![l].select = "error",
                      ![l].result = Rejected("Failed to fetch image records: ",
                                             SelectErrorMessage)]
             ELSE IF Len(data) = 0
             THEN [lists EXCEPT ![l].pc = "done", ![l].select = "ok",
                                ![l].result = Resolved(<< >>)]
             ELSE [lists EXCEPT ![l].pc = "urls", ![l].select = "ok",
                      ![l].imagesData = data,
                      ![l].signedUrlResults = [i \in 1..Len(data) |-> SignedPending],
                      ![l].waiting = 1..Len(data),
                      ![l].requested = [i \in 1..Len(data) |-> data[i].storage_path]]
    /\ UNCHANGED <<blobs, imageRows, nextImageId, clock, saves, deletes, chatVars, authVars,
                   galleryVars>>

ListSelectReturn == \E l \in DOMAIN lists : \E ok \in BOOLEAN : ListSelect(l, ok)

\* a listing that keeps the responses in the order they arrive
ListSignedInArrivalOrder(l, i, ok) ==
    /\ lists[l].pc = "urls"
    /\ i \in lists[l].waiting
    /\ LET results == [lists[l].signedUrlResults EXCEPT
                          ![Len(lists[l].completed) + 1] = IF ok THEN SignedOk(lists[l].requested[i])
                                 ELSE SignedFailed]
           waiting == lists[l].waiting \ {i}
           completed == Append(lists[l].completed, [request |-> i, ok |-> ok])
       IN  lists' =
             IF waiting # {}
             THEN [lists EXCEPT ![l].signedUrlResults = results, ![l].waiting = waiting,
                                ![l].completed = completed]
             ELSE [lists EXCEPT ![l].signedUrlResults = results, ![l].waiting = waiting,
                      ![l].completed = completed,
                      ![l].pc = "done",
                      ![l].result = Resolved(Gallery(lists[l].imagesData, results))]
    /\ UNCHANGED <<blobs, imageRows, nextImageId, clock, saves, deletes, chatVars, authVars,
                   galleryVars>>

\* the signed-URL request of row i returns; Promise.all resolves with the
\* last one and the entries are built
ListSigned(l, i, ok) ==
    /\ lists[l].pc = "urls"
    /\ i \in lists[l].waiting
    /\ LET results == [lists[l].signedUrlResults EXCEPT
                          ![i] = IF ok THEN SignedOk(lists[l].requested[i])
                                 ELSE SignedFailed]
           waiting == lists[l].waiting \ {i}
           completed == Append(lists[l].completed, [request |-> i, ok |-> ok])
       IN  lists' =
             IF waiting # {}
             THEN [lists EXCEPT ![l].signedUrlResults = results, ![l].waiting = waiting,
                                ![l].completed = completed]
             ELSE [lists EXCEPT ![l].signedUrlResults = results, ![l].waiting = waiting,
                      ![l].completed = completed,
                      ![l].pc = "done",
                      ![l].result = Resolved(Gallery(lists[l].imagesData, results))]
    /\ UNCHANGED <<blobs, imageRows, nextImageId, clock, saves, deletes, chatVars, authVars,
                   galleryVars>>

ListSignedReturn ==
    \E l \in DOMAIN lists : \E i \in lists[l].waiting : \E ok \in BOOLEAN :
        ListSigned(l, i, ok)

----------------------------------------------------------------------------
(* deleteImage *)

\* the paths a caller may name: those of the rows and of the stored objects
KnownPaths == blobs \cup {imageRows[i].storage_path : i \in DOMAIN imageRows}

NewDelete(userId, storagePath) ==
    [user |-> userId, path |-> storagePath, pc |-> "remove",
     removed |-> <<<<storagePath>>>>, remove |-> "issued", rowDelete |-> "none",
     result |-> Pending]

\* the call of deleteImage: the removal of the object is issued
DeleteImage ==
    /\ MediaCalls < MaxMediaCalls
    /\ \E storagePath \in KnownPaths :
            deletes' = Append(deletes, NewDelete(SessionUser, storagePath))
    /\ UNCHANGED <<blobs, imageRows, nextImageId, clock, saves, lists, chatVars, authVars,
                   galleryVars>>

\* the removal returns {error}; the delete of the row is issued
DeleteRemove(d, ok) ==
    /\ deletes[d].pc = "remove"
    /\ IF ok
       THEN /\ blobs' = blobs \ {deletes[d].path}
            /\ deletes' = [deletes EXCEPT ![d].pc = "delete", ![d].remove = "ok",
                                          ![d].rowDelete = "issued"]
       ELSE /\ blobs' = blobs
            /\ deletes' = [deletes EXCEPT ![d].pc = "done", ![d].remove = "error",
                              ![d].result = Rejected("Failed to delete image from storage: ",
                                                     RemoveErrorMessage)]
    /\ UNCHANGED <<imageRows, nextImageId, clock, saves, lists, chatVars, authVars,
                   galleryVars>>

DeleteRemoveReturn == \E d \in DOMAIN deletes : \E ok \in BOOLEAN : DeleteRemove(d, ok)

\* a delete that tries the object again and reports nothing
DeleteRowRetryingQuietly(d, ok) ==
    /\ deletes[d].pc = "delete"
    /\ imageRows' = IF ok
                    THEN DeleteImageRows(imageRows, deletes[d].user, deletes[d].path)
                    ELSE imageRows
    /\ deletes' = [deletes EXCEPT ![d].pc = "done",
                      ![d].rowDelete = IF ok THEN "ok" ELSE "error",
                      ![d].removed = IF ok THEN @ ELSE Append(@, <<deletes[d].path>>),
                      ![d].result = Resolved(<< >>)]
    /\ UNCHANGED <<blobs, nextImageId, clock, saves, lists, chatVars, authVars,
                   galleryVars>>

\* the delete of the row returns {error}
DeleteRow(d, ok) ==
    /\ deletes[d].pc = "delete"
    /\ imageRows' = IF ok
                    THEN DeleteImageRows(imageRows, deletes[d].user, deletes[d].path)
                    ELSE imageRows
    /\ deletes' = [deletes EXCEPT ![d].pc = "done",
                      ![d].rowDelete = IF ok THEN "ok" ELSE "error",
                      ![d].result = IF ok THEN Resolved(<< >>)
                                    ELSE Rejected("Failed to delete image record: ",
                                                  RowDeleteErrorMessage)]
    /\ UNCHANGED <<blobs, nextImageId, clock, saves, lists, chatVars, authVars,
                   galleryVars>>

DeleteRowReturn == \E d \in DOMAIN deletes : \E ok \in BOOLEAN : DeleteRow(d, ok)

----------------------------------------------------------------------------
(* a change of the authenticated user: useEffect(..., [user]) runs initChat again *)

NewReinit(u) == [user |-> u, pc |-> "fetchKb", kb |-> "", result |-> NoResult]

\* useAuth delivers another user: the effect calls initChat(user.id), which
\* sets the loading flag and issues the fetch of the knowledge base; the
\* effect has no cleanup, so the calls of initChat still in flight go on
AuthChange ==
    /\ ChatCalls < MaxChatCalls
    /\ \E u \in Users \ {user} :
            /\ user' = u
            /\ reinits' = Append(reinits, NewReinit(u))
    /\ isLoading' = TRUE
    /\ lastOp' = "-"
    /\ UNCHANGED <<chat, messages, input, contexts, chatRows, chatStamps,
                   initPc, initKb, initResult, sends, clears, owners, mediaVars,
                   galleryVars>>

\* the fetch of the knowledge base of a later initChat returns
ReinitFetchKb(r, kb) ==
    /\ reinits[r].pc = "fetchKb"
    /\ reinits' = [reinits EXCEPT ![r].pc = "select", ![r].kb = kb]
    /\ lastOp' = "-"
    /\ UNCHANGED <<chat, messages, input, isLoading, contexts, chatRows, chatStamps,
                   initPc, initKb, initResult, sends, clears, user, owners, mediaVars,
                   galleryVars>>

ReinitFetchKbReturn ==
    \E r \in DOMAIN reinits : \E kb \in KnowledgeTexts : ReinitFetchKb(r, kb)

\* the read of a later initChat returns {data, error}
ReinitSelect(r, data, err) ==
    /\ reinits[r].pc = "select"
    /\ reinits' = [reinits EXCEPT ![r].pc = "done",
                                  ![r].result = [data |-> data, err |-> err]]
    /\ contexts' = Append(contexts, createChat(reinits[r].kb, FormatHistory(data)))
    /\ chat' = Len(contexts) + 1
    /\ owners' = Append(owners, reinits[r].user)
    /\ messages' = InitialTranscript(data, err)
    /\ isLoading' = FALSE
    /\ lastOp' = "-"
    /\ UNCHANGED <<input, chatRows, chatStamps, initPc, initKb, initResult, sends, clears,
                   user, mediaVars,
                   galleryVars>>

ReinitSelectReturn ==
    \E r \in DOMAIN reinits :
        \/ \E data \in ReadHistory(chatRows, chatStamps, reinits[r].user) :
                ReinitSelect(r, data, << >>)
        \/ \E m \in ReadErrorMessages : ReinitSelect(r, << >>, m)

----------------------------------------------------------------------------
(* a fresh mount of Chatbot *)

\* Chatbot is mounted anew while no call is in flight: the state is that of
\* useState and the effect calls initChat(user.id) for the same user
Remount ==
    /\ ChatCalls < MaxChatCalls
    /\ initPc = "done"
    /\ \A s \in DOMAIN sends : sends[s].pc = "done"
    /\ \A c \in DOMAIN clears : clears[c].pc = "done"
    /\ \A r \in DOMAIN reinits : reinits[r].pc = "done"
    /\ chat' = 0
    /\ messages' = << >>
    /\ input' = << >>
    /\ isLoading' = TRUE
    /\ reinits' = Append(reinits, NewReinit(user))
    /\ lastOp' = "-"
    /\ UNCHANGED <<contexts, chatRows, chatStamps, initPc, initKb, initResult,
                   sends, clears, user, owners, mediaVars, galleryVars>>

----------------------------------------------------------------------------
(* Gallery *)

\* a call of getUserImages or deleteImage has settled and the handler that
\* awaits it has not yet run on; it runs on before any other task does
Settling ==
    \/ \E f \in DOMAIN fetches :
            fetches[f].pc = "await" /\ lists[fetches[f].list].pc = "done"
    \/ \E h \in DOMAIN handleDeletes :
            handleDeletes[h].pc = "await" /\ deletes[handleDeletes[h].del].pc = "done"

\* fetchImages up to its await: the flags are set and getUserImages is called
FetchImages ==
    /\ ~Settling
    /\ MediaCalls < MaxMediaCalls
    /\ galleryIsLoading' = TRUE
    /\ error' = << >>
    /\ lists' = Append(lists, NewList(SessionUser))
    /\ fetches' = Append(fetches, [list |-> Len(lists) + 1, pc |-> "await"])
    /\ UNCHANGED <<images, handleDeletes, alerts, blobs, imageRows, nextImageId, clock,
                   saves, deletes, chatVars, authVars>>

\* the effect of the mounted Gallery calls fetchImages
Mount == fetches = << >> /\ FetchImages

\* the button shown with the error calls fetchImages
TryAgain ==
    /\ fetches # << >>
    /\ ~galleryIsLoading
    /\ error # << >>
    /\ FetchImages

\* useAuth delivers a new user object for the same principal: fetchImages
\* is made anew and the effect calls it
UserRefreshed == fetches # << >> /\ FetchImages

\* what fetchImages does with a rejection of getUserImages
LoadFailure(result) == <<"Failed to load gallery: ">> \o result.message

\* getUserImages has settled: fetchImages sets the list or the error, and
\* clears the loading flag
FetchImagesSettled(f) ==
    LET result == lists[fetches[f].list].result
    IN  /\ fetches[f].pc = "await"
        /\ lists[fetches[f].list].pc = "done"
        /\ IF result.state = "resolved"
           THEN images' = result.value /\ error' = error
           ELSE images' = images /\ error' = LoadFailure(result)
        /\ galleryIsLoading' = FALSE
        /\ fetches' = [fetches EXCEPT ![f].pc = "done"]
        /\ UNCHANGED <<handleDeletes, alerts, mediaVars, chatVars, authVars>>

FetchImagesReturn == \E f \in DOMAIN fetches : FetchImagesSettled(f)

\* the delete button of a displayed image, and the confirmation given:
\* deleteImage is called
HandleDelete ==
    /\ ~Settling
    /\ MediaCalls < MaxMediaCalls
    /\ ~galleryIsLoading
    /\ error = << >>
    /\ \E i \in DOMAIN images :
            /\ deletes' = Append(deletes, NewDelete(SessionUser, images[i].storage_path))
            /\ handleDeletes' = Append(handleDeletes,
                    [image |-> images[i], del |-> Len(deletes) + 1, pc |-> "await"])
    /\ UNCHANGED <<images, galleryIsLoading, error, fetches, alerts,
                   blobs, imageRows, nextImageId, clock, saves, lists,
                   chatVars, authVars>>

\* currentImages.filter(img => img.id !== image.id)
WithoutImage(currentImages, image) ==
    SelectSeq(currentImages, LAMBDA img : img.id # image.id)

DeleteFailure(result) == <<"Failed to delete image: ">> \o result.message

\* a handler that takes the image from the list whatever deleteImage returned
HandleDeleteSettledRemovingAnyway(h) ==
    LET result == deletes[handleDeletes[h].del].result
    IN  /\ handleDeletes[h].pc = "await"
        /\ deletes[handleDeletes[h].del].pc = "done"
        /\ images' = WithoutImage(images, handleDeletes[h].image)
        /\ alerts' = IF result.state = "resolved" THEN alerts
                     ELSE Append(alerts, DeleteFailure(result))
        /\ handleDeletes' = [handleDeletes EXCEPT ![h].pc = "done"]
        /\ UNCHANGED <<galleryIsLoading, error, fetches, mediaVars, chatVars, authVars>>

\* deleteImage has settled: handleDelete takes the image from the list, or
\* alerts
HandleDeleteSettled(h) ==
    LET result == deletes[handleDeletes[h].del].result
    IN  /\ handleDeletes[h].pc = "await"
        /\ deletes[handleDeletes[h].del].pc = "done"
        /\ IF result.state = "resolved"
           THEN /\ images' = WithoutImage(images, handleDeletes[h].image)
                /\ alerts' = alerts
           ELSE /\ images' = images
                /\ alerts' = Append(alerts, DeleteFailure(result))
        /\ handleDeletes' = [handleDeletes EXCEPT ![h].pc = "done"]
        /\ UNCHANGED <<galleryIsLoading, error, fetches, mediaVars, chatVars, authVars>>

HandleDeleteReturn == \E h \in DOMAIN handleDeletes : HandleDeleteSettled(h)

----------------------------------------------------------------------------

Next ==
    \/ InitFetchKb
    \/ InitSelect
    \/ SetInput
    \/ HandleSend
    \/ SendGatewayReturn
    \/ SendInsertReturn
    \/ HandleClearHistory
    \/ ClearDeleteReturn
    \/ ClearFetchReturn

\* the chat session of one mounted Chatbot
Spec == Init /\ [][Next]_vars

MediaNext ==
    \/ SaveImage
    \/ SaveUploadReturn
    \/ SaveInsertReturn
    \/ SaveCleanupReturn
    \/ GetUserImages
    \/ ListSelectReturn
    \/ ListSignedReturn
    \/ DeleteImage
    \/ DeleteRemoveReturn
    \/ DeleteRowReturn

MediaInit == Init /\ chatRows = <<ChatRow(OtherUser, "user", <<"x">>)>>

\* the calls of the media service
MediaSpec == MediaInit /\ [][MediaNext]_vars

\* every remote call that has been issued returns at some time
RemoteCallsReturn ==
    /\ WF_vars(InitFetchKb)
    /\ WF_vars(InitSelect)
    /\ WF_vars(SendGatewayReturn)
    /\ WF_vars(SendInsertReturn)
    /\ WF_vars(ClearDeleteReturn)
    /\ WF_vars(ClearFetchReturn)

\* the chat session, with every remote call returning
LiveSpec == Init /\ [][Next]_vars /\ RemoteCallsReturn

AuthNext ==
    \/ Next
    \/ AuthChange
    \/ ReinitFetchKbReturn
    \/ ReinitSelectReturn

\* the chat session of a mounted Chatbot whose authenticated user may change
AuthSpec == Init /\ [][AuthNext]_vars

RoundTripNext ==
    \/ Next
    \/ Remount
    \/ ReinitFetchKbReturn
    \/ ReinitSelectReturn

\* the chat session of a Chatbot that may be mounted anew
RoundTripSpec == Init /\ [][RoundTripNext]_vars

\* two images of the user of the session, saved before it began
GalleryStore ==
    /\ blobs = {OtherUserPath, FilePath(SessionUser, 1), FilePath(SessionUser, 2)}
    /\ imageRows = <<NewImageRow(1, OtherUser, <<"fox">>, OtherUserPath),
                     NewImageRow(2, SessionUser, <<"cat">>, FilePath(SessionUser, 1)),
                     NewImageRow(3, SessionUser, <<"dog">>, FilePath(SessionUser, 2))>>
    /\ nextImageId = 4
    /\ clock = 2

GalleryInit ==
    /\ InitComponents
    /\ chatRows = <<ChatRow(OtherUser, "user", <<"x">>)>>
    /\ GalleryStore

GalleryNext ==
    \/ Mount
    \/ TryAgain
    \/ UserRefreshed
    \/ FetchImagesReturn
    \/ HandleDelete
    \/ HandleDeleteReturn
    \/ ~Settling /\ ListSelectReturn
    \/ ~Settling /\ ListSignedReturn
    \/ ~Settling /\ DeleteRemoveReturn
    \/ ~Settling /\ DeleteRowReturn

\* the mounted Gallery and the calls of the media service it makes
GallerySpec == GalleryInit /\ [][GalleryNext]_vars

----------------------------------------------------------------------------
(* Properties of the chat session *)

SendOutstanding == \E s \in DOMAIN sends : sends[s].pc # "done"

NoResetYet == \A c \in DOMAIN clears : clears[c].result # "ok"

\* C1: a call of handleSend made while an earlier one is outstanding is
\* rejected.  While a send is outstanding isLoading is true, and a call of
\* handleSend in a state where isLoading is true changes nothing: no turn is
\* appended, no gateway call and no insert is issued or queued.
C1_SendRejectedWhileOutstanding ==
    /\ [](SendOutstanding => isLoading)
    /\ [][(isLoading /\ HandleSend) =>
            /\ lastOp' = "handleSend.rejected"
            /\ UNCHANGED <<chat, messages, input, isLoading, contexts, chatRows, chatStamps,
                           initPc, initKb, initResult, sends, clears,
                   galleryVars>>]_vars

\* a call with a sendable input and a live context was rejected while a send
\* was outstanding
C1_Witness ==
    /\ lastOp = "handleSend.rejected"
    /\ Trim(input) # << >>
    /\ chat # 0
    /\ SendOutstanding

\* the turns a call of handleSend has appended so far
TurnsOf(s) == IF sends[s].pc = "gateway" THEN 1 ELSE 2

RECURSIVE SumTurns(_)
SumTurns(n) == IF n = 0 THEN 0 ELSE TurnsOf(n) + SumTurns(n - 1)

\* C2: in a session without reset, with K the number of turns initChat
\* placed, the transcript has K + 2N turns once N calls of handleSend have
\* finished (one more while the next one waits for the gateway), and the
\* turns after the first K alternate user, bot, ...: the 2i-1st is the
\* user turn of the i-th call and the 2i-th its bot turn.
C2_TranscriptShape ==
    (initPc = "done" /\ NoResetYet) =>
        LET K == Len(InitialTranscript(initResult.data, initResult.err))
            N == Len(sends)
        IN  /\ Len(messages) = K + SumTurns(N)
            /\ ~SendOutstanding => Len(messages) = K + 2 * N
            /\ \A j \in 1..(Len(messages) - K) :
                    messages[K + j].sender = IF j % 2 = 1 THEN "user" ELSE "bot"
            /\ \A s \in 1..N :
                    /\ messages[K + 2 * s - 1] = Message("user", sends[s].text)
                    /\ sends[s].pc # "gateway" =>
                            messages[K + 2 * s] = Message("bot", sends[s].reply)

\* two calls have finished on top of a loaded history
C2_Witness ==
    /\ initPc = "done"
    /\ NoResetYet
    /\ Len(sends) = 2
    /\ ~SendOutstanding
    /\ Len(messages) = 6

\* C3: for a call of handleSend whose gateway call failed no insert is
\* attempted: neither its user turn nor its fallback turn goes to chat_history.
C3_NoInsertAfterGatewayFailure ==
    \A s \in DOMAIN sends :
        (sends[s].gw = "failed") => sends[s].insert = "none"

\* C4: when the delete of handleClearHistory fails, the failure is alerted,
\* the call ends there, and neither its call nor its failing step changes
\* the transcript, the live context or the table.
C4_FailedResetChangesNothing ==
    /\ [][HandleClearHistory =>
            UNCHANGED <<messages, chat, contexts, chatRows, chatStamps,
                   galleryVars>>]_vars
    /\ [][\A c \in DOMAIN clears :
            ClearDelete(c, FALSE) =>
                /\ clears'[c].alerted
                /\ clears'[c].pc = "done"
                /\ UNCHANGED <<messages, chat, contexts, chatRows, chatStamps,
                   galleryVars>>]_vars
    /\ [](\A c \in DOMAIN clears :
            clears[c].result = "failed" => clears[c].pc = "done" /\ clears[c].alerted)

\* a reset failed on a transcript holding an exchange, which is still there
C4_Witness ==
    \E c \in DOMAIN clears :
        /\ clears[c].result = "failed"
        /\ clears[c].alerted
        /\ chat = 1
        /\ Len(messages) >= 3
        /\ NoResetYet

\* C5: when the delete of handleClearHistory succeeded, then once the reset
\* has completed the transcript is exactly the history-cleared turn and the
\* live context is a newly created one with no seed history.
C5_ResetYieldsClearedTranscript ==
    [][\A c \in DOMAIN clears : \A kb \in KnowledgeTexts :
        ClearFetch(c, kb) =>
            /\ clears[c].result = "ok"
            /\ Len(contexts') = Len(contexts) + 1
            /\ chat' = Len(contexts')
            /\ contexts'[chat'].seed = << >>
            /\ contexts'[chat'].history = << >>
            /\ messages' = <<Message("bot", ClearedText)>>]_vars

\* C5, the serial case: the same, for a reset during which no call of
\* handleSend or initChat ran.
C5_SerialReset ==
    [][\A c \in DOMAIN clears : \A kb \in KnowledgeTexts :
        ClearFetch(c, kb) =>
            /\ clears[c].result = "ok"
            /\ Len(contexts') = Len(contexts) + 1
            /\ chat' = Len(contexts')
            /\ contexts'[chat'].seed = << >>
            /\ contexts'[chat'].history = << >>
            /\ ~clears[c].overlapped =>
                    messages' = <<Message("bot", ClearedText)>>]_vars

\* C6: right after initChat (no send accepted, no reset done) the transcript
\* is one notice turn chosen by the result of the read: the setup-incomplete
\* notice for an error naming a missing table, the generic notice carrying
\* the message for any other error, the greeting for a read of zero rows.
C6_InitThreeWay ==
    (initPc = "done" /\ sends = << >> /\ NoResetYet) =>
        LET e == initResult.err
            missing == \E i \in 1..Len(e) :
                          e[i] \in {"does not exist", "Could not find the table"}
        IN  /\ (e # << >> /\ missing) =>
                    messages = <<Message("bot", SetupIncompleteText)>>
            /\ (e # << >> /\ ~missing) =>
                    messages = <<Message("bot", <<GenericNoticePrefix>> \o e)>>
            /\ (e = << >> /\ Len(initResult.data) = 0) =>
                    messages = <<Message("bot", GreetingText)>>

\* the read failed with the PostgREST wording of a missing table
C6_Witness ==
    /\ initPc = "done"
    /\ sends = << >>
    /\ NoResetYet
    /\ Includes(initResult.err, "Could not find the table")
    /\ messages = <<Message("bot", SetupIncompleteText)>>

----------------------------------------------------------------------------
(* Properties of the media service *)

\* C7: in saveImage, when the upload succeeded and the insert failed, exactly
\* one removal is issued, for exactly the path uploaded, and the call then
\* rejects with the metadata error carrying the message of the insert.
C7_CompensatingRemove ==
    \A s \in DOMAIN saves :
        (saves[s].upload = "ok" /\ saves[s].insert = "error") =>
            /\ saves[s].pc \in {"cleanup", "done"}
            /\ saves[s].removed = << <<saves[s].path>> >>
            /\ saves[s].pc = "cleanup" => saves[s].result.state = "pending"
            /\ saves[s].pc = "done" =>
                    /\ saves[s].cleanup \in {"ok", "error"}
                    /\ saves[s].result.state = "rejected"
                    /\ saves[s].result.message =
                            <<"Failed to save image metadata: ">> \o InsertErrorMessage

\* a save was compensated: its object is gone again and the call rejected
C7_Witness ==
    \E s \in DOMAIN saves :
        /\ saves[s].pc = "done"
        /\ saves[s].upload = "ok"
        /\ saves[s].insert = "error"
        /\ saves[s].cleanup = "ok"
        /\ saves[s].path \notin blobs
        /\ saves[s].result.state = "rejected"

\* C8: in deleteImage, when the removal of the object succeeded and the
\* delete of the row failed, the call rejects with the delete error, the
\* removal was issued once, and the failing step leaves the rows in place.
C8_RowDeleteFailure ==
    /\ [](\A d \in DOMAIN deletes :
            (deletes[d].remove = "ok" /\ deletes[d].rowDelete = "error") =>
                /\ deletes[d].pc = "done"
                /\ deletes[d].removed = << <<deletes[d].path>> >>
                /\ deletes[d].result.state = "rejected"
                /\ deletes[d].result.message =
                        <<"Failed to delete image record: ">> \o RowDeleteErrorMessage)
    /\ [][\A d \in DOMAIN deletes :
            DeleteRow(d, FALSE) => UNCHANGED <<imageRows, blobs,
                   galleryVars>>]_vars

\* the object of a row of the caller is gone, its row delete failed and the
\* row is still in the table
C8_Witness ==
    \E d \in DOMAIN deletes :
        /\ deletes[d].remove = "ok"
        /\ deletes[d].rowDelete = "error"
        /\ deletes[d].result.state = "rejected"
        /\ deletes[d].path \notin blobs
        /\ \E i \in DOMAIN imageRows :
                /\ imageRows[i].user_id = deletes[d].user
                /\ imageRows[i].storage_path = deletes[d].path

\* C9: when the read of getUserImages succeeds, the call resolves with one
\* entry per row of the user, in the order read: the read takes every row of
\* the user and requests one signed URL per row (none, and the empty
\* sequence, when there is no row); entry i carries row i, and its url is
\* empty exactly when the signed-URL request of row i failed.
C9_ListingPerRow ==
    /\ [][\A l \in DOMAIN lists :
            ListSelect(l, TRUE) =>
                LET mine == {i \in DOMAIN imageRows :
                                imageRows[i].user_id = lists[l].user}
                    data == lists'[l].imagesData
                IN  /\ Len(data) = Cardinality(mine)
                    /\ \A i \in mine : \E k \in DOMAIN data :
                            /\ data[k].id = imageRows[i].id
                            /\ data[k].storage_path = imageRows[i].storage_path
                    /\ Len(lists'[l].requested) = Len(data)
                    /\ \A k \in DOMAIN data :
                            lists'[l].requested[k] = data[k].storage_path
                    /\ mine = {} => lists'[l].result = Resolved(<< >>)]_vars
    /\ [](\A l \in DOMAIN lists :
            (lists[l].pc = "done" /\ lists[l].select = "ok") =>
                LET data == lists[l].imagesData
                    out == lists[l].result.value
                IN  /\ lists[l].result.state = "resolved"
                    /\ Len(out) = Len(data)
                    /\ \A i \in DOMAIN data :
                            /\ out[i].id = data[i].id
                            /\ out[i].prompt = data[i].prompt
                            /\ out[i].storage_path = data[i].storage_path
                            /\ out[i].created_at = data[i].created_at
                            /\ (out[i].url = << >>) <=>
                                    lists[l].signedUrlResults[i].error)

\* a listing of two rows resolved with both entries, one of them without URL
C9_Witness ==
    \E l \in DOMAIN lists :
        /\ lists[l].pc = "done"
        /\ lists[l].select = "ok"
        /\ Len(lists[l].result.value) = 2
        /\ lists[l].result.value[1].url = << >>
        /\ lists[l].result.value[2].url # << >>

\* C10: a listing called after a save of the same user resolved, all of
\* whose remote calls succeed, contains an entry with the prompt and the
\* path of that save and a non-empty url (no deleteImage was called for
\* the path).
C10_SaveListRoundTrip ==
    \A l \in DOMAIN lists :
        ( /\ lists[l].pc = "done"
          /\ lists[l].select = "ok"
          /\ \A i \in DOMAIN lists[l].signedUrlResults :
                ~lists[l].signedUrlResults[i].error ) =>
            \A s \in lists[l].after :
                ( /\ saves[s].user = lists[l].user
                  /\ \A d \in DOMAIN deletes : deletes[d].path # saves[s].path ) =>
                    /\ lists[l].result.state = "resolved"
                    /\ \E i \in DOMAIN lists[l].result.value :
                            /\ lists[l].result.value[i].prompt = saves[s].prompt
                            /\ lists[l].result.value[i].storage_path = saves[s].path
                            /\ lists[l].result.value[i].url # << >>

\* a listing returned the image of an earlier save of a cat
C10_Witness ==
    \E l \in DOMAIN lists : \E s \in lists[l].after :
        /\ lists[l].pc = "done"
        /\ lists[l].result.state = "resolved"
        /\ saves[s].prompt = <<"cat">>
        /\ \E i \in DOMAIN lists[l].result.value :
                /\ lists[l].result.value[i].prompt = <<"cat">>
                /\ lists[l].result.value[i].storage_path = saves[s].path
                /\ lists[l].result.value[i].url = <<"https://signed/">> \o saves[s].path

----------------------------------------------------------------------------
(* Consistency of the table and the bucket *)

\* no call of saveImage or deleteImage is between its remote steps
MediaQuiescent ==
    /\ \A s \in DOMAIN saves : saves[s].pc = "done"
    /\ \A d \in DOMAIN deletes : deletes[d].pc = "done"

\* C11: whenever no saveImage and no deleteImage is in flight, every row of
\* user_images references an object that exists in the bucket, whatever the
\* earlier calls' remote steps returned.
C11_RowsReferenceBlobs ==
    MediaQuiescent =>
        \A i \in DOMAIN imageRows : imageRows[i].storage_path \in blobs

----------------------------------------------------------------------------
(* Scoping by user *)

\* the objects in the folder of user u, and the rows of user u
BlobsOf(u) == {b \in blobs : b[1] = u}
ImageRowsOf(u) == SelectSeq(imageRows, LAMBDA r : r.user_id = u)
ChatRowsOf(u) == SelectSeq(chatRows, LAMBDA r : r.user_id = u)

\* C12: every persistence operation made for the acting user (all calls of
\* the model are made for SessionUser) leaves the rows and the objects of the
\* other user as they are, and a read of user_images takes only rows of the
\* acting user and requests URLs only for objects in that user's folder.
C12_ScopedToActingUser ==
    /\ [][/\ BlobsOf(OtherUser)' = BlobsOf(OtherUser)
          /\ ImageRowsOf(OtherUser)' = ImageRowsOf(OtherUser)
          /\ ChatRowsOf(OtherUser)' = ChatRowsOf(OtherUser)]_vars
    /\ [][\A l \in DOMAIN lists :
            ListSelect(l, TRUE) =>
                \A k \in DOMAIN lists'[l].imagesData :
                    /\ \E i \in DOMAIN imageRows :
                            /\ imageRows[i].id = lists'[l].imagesData[k].id
                            /\ imageRows[i].user_id = lists[l].user
                    /\ lists'[l].requested[k][1] = lists[l].user]_vars

\* C12, the chat session: the reads, inserts and deletes of chat_history made
\* for SessionUser leave the rows of the other user as they are, and the
\* history initChat reads is that of SessionUser.
C12_ChatScoped ==
    /\ [][ChatRowsOf(OtherUser)' = ChatRowsOf(OtherUser)]_vars
    /\ [][InitSelect =>
            \/ initResult'.err # << >>
            \/ initResult'.data =
                 [i \in 1..Len(ChatRowsOf(SessionUser)) |->
                    Message(ChatRowsOf(SessionUser)[i].sender,
                            ChatRowsOf(SessionUser)[i].text)]]_vars

----------------------------------------------------------------------------
(* The live context and the authenticated user *)

\* some call of initChat or of handleClearHistory has not finished
InitOrResetInFlight ==
    \/ initPc # "done"
    \/ \E r \in DOMAIN reinits : reinits[r].pc # "done"
    \/ \E c \in DOMAIN clears : clears[c].pc # "done"

\* C13: once the calls of initChat have finished (and no reset is running),
\* the one live context is a context created for the user who is
\* authenticated now, seeded with nothing but rows of that user; this also
\* when the user changed while an earlier initChat was still in flight.
C13_LiveContextOfCurrentUser ==
    ~InitOrResetInFlight =>
        /\ chat \in DOMAIN contexts
        /\ owners[chat] = user

----------------------------------------------------------------------------
(* Failures of the media service *)

RejectedWith(result, prefix, msg) ==
    /\ result.state = "rejected"
    /\ result.message = <<prefix>> \o msg

Settled(status) == status \in {"ok", "error"}

\* C14: within one call of saveImage, getUserImages or deleteImage each
\* remote step is issued at most once (a step that has returned is never
\* issued again, and a call names at most one removal), and a failed upload,
\* insert, read, removal or row delete makes the call reject with the error
\* that carries the provider's message.
C14_NoRetryNoSwallow ==
    /\ [](/\ \A s \in DOMAIN saves :
                /\ Len(saves[s].removed) <= 1
                /\ saves[s].upload = "error" =>
                        /\ saves[s].pc = "done"
                        /\ RejectedWith(saves[s].result,
                                "Failed to upload image to storage: ", UploadErrorMessage)
                /\ saves[s].insert = "error" =>
                        /\ saves[s].pc \in {"cleanup", "done"}
                        /\ saves[s].result.state # "resolved"
                        /\ saves[s].pc = "done" =>
                                RejectedWith(saves[s].result,
                                    "Failed to save image metadata: ", InsertErrorMessage)
          /\ \A l \in DOMAIN lists :
                lists[l].select = "error" =>
                    /\ lists[l].pc = "done"
                    /\ RejectedWith(lists[l].result,
                            "Failed to fetch image records: ", SelectErrorMessage)
          /\ \A d \in DOMAIN deletes :
                /\ Len(deletes[d].removed) = 1
                /\ deletes[d].remove = "error" =>
                        /\ deletes[d].pc = "done"
                        /\ deletes[d].rowDelete = "none"
                        /\ RejectedWith(deletes[d].result,
                                "Failed to delete image from storage: ", RemoveErrorMessage)
                /\ deletes[d].rowDelete = "error" =>
                        /\ deletes[d].pc = "done"
                        /\ RejectedWith(deletes[d].result,
                                "Failed to delete image record: ", RowDeleteErrorMessage))
    /\ [][/\ \A s \in DOMAIN saves :
                /\ Settled(saves[s].upload) => saves'[s].upload = saves[s].upload
                /\ Settled(saves[s].insert) => saves'[s].insert = saves[s].insert
                /\ Settled(saves[s].cleanup) => saves'[s].cleanup = saves[s].cleanup
          /\ \A l \in DOMAIN lists :
                Settled(lists[l].select) => lists'[l].select = lists[l].select
          /\ \A d \in DOMAIN deletes :
                /\ Settled(deletes[d].remove) => deletes'[d].remove = deletes[d].remove
                /\ Settled(deletes[d].rowDelete) =>
                        deletes'[d].rowDelete = deletes[d].rowDelete]_vars

\* a save failed at its upload, a listing at its read and a delete at its
\* removal, and all three calls rejected
C14_Witness ==
    /\ \E s \in DOMAIN saves :
            saves[s].upload = "error" /\ saves[s].result.state = "rejected"
    /\ \E l \in DOMAIN lists :
            lists[l].select = "error" /\ lists[l].result.state = "rejected"
    /\ \E d \in DOMAIN deletes :
            deletes[d].remove = "error" /\ deletes[d].result.state = "rejected"

----------------------------------------------------------------------------
(* Failures of the insert of an exchange *)

\* C15: when the gateway call of a send succeeded and the insert of the
\* exchange fails, the failing step changes neither the transcript nor the
\* table, raises no alert, and leaves the session ready (loading flag off, a
\* live context); without a reset the transcript then ends with the user
\* turn of the call followed by the reply.
C15_InsertFailureIsSilent ==
    [][\A s \in DOMAIN sends :
        (sends[s].gw = "ok" /\ SendInsert(s, FALSE)) =>
            /\ messages' = messages
            /\ chatRows' = chatRows
            /\ clears' = clears
            /\ isLoading' = FALSE
            /\ chat' \in DOMAIN contexts'
            /\ sends'[s].pc = "done"
            /\ NoResetYet =>
                    /\ Len(messages') >= 2
                    /\ messages'[Len(messages') - 1] = Message("user", sends[s].text)
                    /\ messages'[Len(messages')] = Message("bot", sends[s].reply)]_vars

\* after a send whose insert failed a further send has been accepted
C15_Witness ==
    /\ Len(sends) = 2
    /\ sends[1].gw = "ok"
    /\ sends[1].insert = "error"
    /\ lastOp = "handleSend.accepted"
    /\ Len(messages) = Len(InitialTranscript(initResult.data, initResult.err)) + 3

----------------------------------------------------------------------------
(* Failures of the upload *)

\* C16: when the upload of saveImage fails, the call rejects with the upload
\* error, no insert and no removal is issued, and after the failing step the
\* table holds no row for the path the call computed.
C16_UploadFailureLeavesNoRow ==
    [][\A s \in DOMAIN saves :
        SaveUpload(s, FALSE) =>
            /\ saves'[s].pc = "done"
            /\ RejectedWith(saves'[s].result,
                    "Failed to upload image to storage: ", UploadErrorMessage)
            /\ saves'[s].insert = "none"
            /\ saves'[s].removed = << >>
            /\ \A i \in DOMAIN imageRows' :
                    imageRows'[i].storage_path # saves[s].path]_vars

\* C16, amended: when the upload of saveImage fails, the call rejects with
\* the upload error, issues no insert and no removal and leaves the table and
\* the bucket as they are; a row for the computed path exists afterwards only
\* if another call of saveImage computed the same path and inserted it.
C16_UploadFailureInsertsNoRow ==
    [][\A s \in DOMAIN saves :
        SaveUpload(s, FALSE) =>
            /\ saves'[s].pc = "done"
            /\ RejectedWith(saves'[s].result,
                    "Failed to upload image to storage: ", UploadErrorMessage)
            /\ saves'[s].insert = "none"
            /\ saves'[s].removed = << >>
            /\ imageRows' = imageRows
            /\ blobs' = blobs
            /\ \A i \in DOMAIN imageRows' :
                    imageRows'[i].storage_path = saves[s].path =>
                        \E t \in DOMAIN saves \ {s} :
                            /\ saves[t].path = saves[s].path
                            /\ saves[t].insert = "ok"]_vars

\* a save whose upload failed has rejected, and the table holds no row for
\* its path
C16_Witness ==
    \E s \in DOMAIN saves :
        /\ saves[s].upload = "error"
        /\ saves[s].pc = "done"
        /\ saves[s].result.state = "rejected"
        /\ saves[s].insert = "none"
        /\ \A i \in DOMAIN imageRows : imageRows[i].storage_path # saves[s].path

----------------------------------------------------------------------------
(* Failures of the compensating removal *)

\* C17: when the insert of saveImage failed and the compensating removal
\* fails too, the call rejects with the error of the insert, the failing
\* step leaves the bucket as it is (the orphan stays unless another call
\* removes it), and the removal is not issued again.
C17_FailedCleanupKeepsInsertError ==
    /\ [][\A s \in DOMAIN saves :
            SaveCleanup(s, FALSE) =>
                /\ saves[s].insert = "error"
                /\ saves'[s].pc = "done"
                /\ RejectedWith(saves'[s].result,
                        "Failed to save image metadata: ", InsertErrorMessage)
                /\ blobs' = blobs
                /\ imageRows' = imageRows
                /\ saves'[s].removed = saves[s].removed]_vars
    /\ [](\A s \in DOMAIN saves :
            saves[s].cleanup = "error" =>
                /\ saves[s].pc = "done"
                /\ saves[s].removed = << <<saves[s].path>> >>
                /\ RejectedWith(saves[s].result,
                        "Failed to save image metadata: ", InsertErrorMessage)
                /\ ( /\ \A d \in DOMAIN deletes : deletes[d].path # saves[s].path
                     /\ \A t \in DOMAIN saves \ {s} : saves[t].path # saves[s].path )
                   => saves[s].path \in blobs)

\* the orphan of a save whose insert and removal both failed is in the
\* bucket, without a row
C17_Witness ==
    \E s \in DOMAIN saves :
        /\ saves[s].insert = "error"
        /\ saves[s].cleanup = "error"
        /\ saves[s].result.state = "rejected"
        /\ saves[s].path \in blobs
        /\ \A i \in DOMAIN imageRows : imageRows[i].storage_path # saves[s].path

----------------------------------------------------------------------------
(* Liveness of the chat session *)

Loading == initPc # "done"

\* Ready, or Degraded: a live context, the loading flag off, no send running
Ready ==
    /\ initPc = "done"
    /\ chat \in DOMAIN contexts
    /\ ~isLoading
    /\ ~SendOutstanding

\* C18: if every remote call returns, a session that is loading becomes
\* ready (or degraded) with a live context and the loading flag off, whatever
\* the read returns, and a session with a send running becomes ready again,
\* whatever the gateway and the insert return.
C18_SessionBecomesReady ==
    /\ Loading ~> Ready
    /\ SendOutstanding ~> Ready

\* the session is ready after a failed read, a failed gateway call and a
\* failed insert
C18_Witness ==
    /\ Ready
    /\ initResult.err # << >>
    /\ \E s \in DOMAIN sends : sends[s].gw = "failed" /\ sends[s].insert = "error"

----------------------------------------------------------------------------
(* Order of the turns of one send *)

\* C19: an accepted call of handleSend appends the user turn at the call,
\* while its gateway call is pending; the bot turn of the exchange is
\* appended by the step in which the gateway call returns, not before; a
\* call with empty or whitespace-only input appends nothing and issues no
\* gateway call.
C19_UserTurnFirst ==
    /\ [][(HandleSend /\ lastOp' = "handleSend.accepted") =>
            /\ Trim(input) # << >>
            /\ messages' = Append(messages, Message("user", input))
            /\ Len(sends') = Len(sends) + 1
            /\ sends'[Len(sends')].text = input
            /\ sends'[Len(sends')].gw = "pending"]_vars
    /\ [][\A s \in DOMAIN sends :
            (sends[s].gw = "pending" /\ sends'[s].gw # "pending") =>
                messages' = Append(messages, Message("bot", sends'[s].reply))]_vars
    /\ [](\A s \in DOMAIN sends :
            (sends[s].gw = "pending" /\ NoResetYet) =>
                /\ sends[s].reply = << >>
                /\ messages[Len(messages)] = Message("user", sends[s].text))
    /\ [][(HandleSend /\ Trim(input) = << >>) =>
            /\ lastOp' = "handleSend.rejected"
            /\ UNCHANGED <<messages, sends, contexts, chatRows, chatStamps, chat, isLoading,
                   galleryVars>>]_vars

\* in a ready session, after one finished exchange, a call with a
\* whitespace-only input was rejected
C19_Witness ==
    /\ lastOp = "handleSend.rejected"
    /\ input = <<" ">>
    /\ chat \in DOMAIN contexts
    /\ ~isLoading
    /\ Len(sends) = 1
    /\ sends[1].pc = "done"

----------------------------------------------------------------------------
(* The insert of an exchange *)

\* C20: after a successful gateway call handleSend issues one insert, in the
\* step that appends the bot turn (after the append); the insert is not
\* issued again once it has returned; on success it adds to chat_history
\* exactly two rows, in this order: the user turn with the submitted text
\* and the bot turn with the returned text, both under the user's id.
C20_OneInsertOfTwoRows ==
    /\ [][\A s \in DOMAIN sends :
            (sends[s].insert = "none" /\ sends'[s].insert # "none") =>
                /\ sends'[s].insert = "issued"
                /\ sends[s].gw = "pending"
                /\ messages' = Append(messages, Message("bot", sends'[s].reply))]_vars
    /\ [][\A s \in DOMAIN sends :
            /\ sends[s].insert = "issued" => sends'[s].insert # "none"
            /\ Settled(sends[s].insert) => sends'[s] = sends[s]]_vars
    /\ [][\A s \in DOMAIN sends :
            (sends[s].gw = "ok" /\ SendInsert(s, TRUE)) =>
                /\ sends[s].reply = GatewayReply
                /\ Len(chatRows') = Len(chatRows) + 2
                /\ SubSeq(chatRows', 1, Len(chatRows)) = chatRows
                /\ chatRows'[Len(chatRows) + 1] =
                        [user_id |-> user, sender |-> "user", text |-> sends[s].text]
                /\ chatRows'[Len(chatRows) + 2] =
                        [user_id |-> user, sender |-> "bot", text |-> GatewayReply]]_vars

\* the exchange of a send with the text "h " is stored as the last two rows
C20_Witness ==
    \E s \in DOMAIN sends :
        /\ sends[s].gw = "ok"
        /\ sends[s].insert = "ok"
        /\ Len(chatRows) >= 2
        /\ chatRows[Len(chatRows) - 1] = ChatRow(SessionUser, "user", <<"h", " ">>)
        /\ chatRows[Len(chatRows)] = ChatRow(SessionUser, "bot", GatewayReply)

----------------------------------------------------------------------------
(* The history initChat loads *)

\* C21: when the read of initChat returns at least one row, the context it
\* creates is seeded with one entry per row of the user, in the order of
\* creation, with role user for the sender 'user' and role model for every
\* other sender, and the transcript is those rows in the same order, with
\* no greeting.
C21_SeedFollowsRows ==
    [][(InitSelect /\ initResult'.err = << >> /\ Len(initResult'.data) > 0) =>
        LET rows == ChatRowsOf(SessionUser)
            seed == contexts'[chat'].seed
        IN  /\ chat' = Len(contexts')
            /\ Len(seed) = Len(rows)
            /\ Len(messages') = Len(rows)
            /\ \A i \in 1..Len(rows) :
                    /\ seed[i].text = rows[i].text
                    /\ rows[i].sender = "user" => seed[i].role = "user"
                    /\ rows[i].sender # "user" => seed[i].role = "model"
                    /\ messages'[i] = [sender |-> rows[i].sender, text |-> rows[i].text]
            /\ \A i \in 1..Len(messages') : messages'[i].text # GreetingText]_vars

\* the history of a user with a row of the sender 'system' has been loaded
C21_Witness ==
    /\ initPc = "done"
    /\ sends = << >>
    /\ clears = << >>
    /\ Len(messages) = 2
    /\ messages[2] = Message("system", <<"note">>)
    /\ contexts[chat].seed = <<[role |-> "user", text |-> <<"h">>],
                               [role |-> "model", text |-> <<"note">>]>>

----------------------------------------------------------------------------
(* Order of the steps of deleteImage *)

\* C22: deleteImage issues the removal of the object first and the delete
\* of the row only after the removal succeeded; when the removal fails the
\* call rejects, no row delete is issued and the table and the bucket stay
\* as they are; a row delete that succeeds removes exactly the rows that
\* have both the caller's user id and the given path.
C22_RemoveThenScopedRowDelete ==
    /\ [][\A d \in DOMAIN deletes' :
            d \notin DOMAIN deletes =>
                /\ deletes'[d].remove = "issued"
                /\ deletes'[d].rowDelete = "none"]_vars
    /\ [](\A d \in DOMAIN deletes :
            deletes[d].rowDelete # "none" => deletes[d].remove = "ok")
    /\ [][\A d \in DOMAIN deletes :
            DeleteRemove(d, FALSE) =>
                /\ saves' = saves
                /\ deletes'[d].pc = "done"
                /\ deletes'[d].rowDelete = "none"
                /\ RejectedWith(deletes'[d].result,
                        "Failed to delete image from storage: ", RemoveErrorMessage)
                /\ imageRows' = imageRows
                /\ blobs' = blobs]_vars
    /\ [][\A d \in DOMAIN deletes :
            DeleteRow(d, TRUE) =>
                LET kept == {imageRows'[i].id : i \in DOMAIN imageRows'}
                IN  /\ \A i \in DOMAIN imageRows :
                            (imageRows[i].id \notin kept) <=>
                                /\ imageRows[i].user_id = deletes[d].user
                                /\ imageRows[i].storage_path = deletes[d].path
                    /\ \A i \in DOMAIN imageRows' :
                            \E j \in DOMAIN imageRows : imageRows'[i] = imageRows[j]
                    /\ Len(imageRows') <= Len(imageRows)]_vars

\* the removal of an image of the caller failed: the call rejected, and the
\* object and the row are still there
C22_Witness ==
    \E d \in DOMAIN deletes :
        /\ deletes[d].remove = "error"
        /\ deletes[d].rowDelete = "none"
        /\ deletes[d].result.state = "rejected"
        /\ deletes[d].path \in blobs
        /\ \E i \in DOMAIN imageRows :
                /\ imageRows[i].user_id = deletes[d].user
                /\ imageRows[i].storage_path = deletes[d].path

----------------------------------------------------------------------------
(* Order of the entries getUserImages returns *)

\* C23: the sequence getUserImages resolves with has the order of the rows
\* as read, newest first, and the url of entry i is what the signed-URL
\* request of row i returned, in whatever order the requests completed.
C23_EntriesFollowRows ==
    \A l \in DOMAIN lists :
        (lists[l].pc = "done" /\ lists[l].select = "ok") =>
            LET data == lists[l].imagesData
                out == lists[l].result.value
                done == lists[l].completed
            IN  /\ lists[l].result.state = "resolved"
                /\ Len(out) = Len(data)
                /\ Len(done) = Len(data)
                /\ \A i \in DOMAIN out :
                        /\ out[i].id = data[i].id
                        /\ out[i].storage_path = data[i].storage_path
                        /\ out[i].prompt = data[i].prompt
                /\ \A i, j \in DOMAIN out :
                        i < j => out[i].created_at > out[j].created_at
                /\ \A k \in DOMAIN done :
                        out[done[k].request].url =
                            IF done[k].ok
                            THEN <<"https://signed/">> \o data[done[k].request].storage_path
                            ELSE << >>

\* a listing of two images whose second request returned before the first
C23_Witness ==
    \E l \in DOMAIN lists :
        /\ lists[l].pc = "done"
        /\ Len(lists[l].result.value) = 2
        /\ lists[l].completed[1].request = 2
        /\ lists[l].completed[1].ok
        /\ lists[l].completed[2].ok
        /\ lists[l].result.value[1].url # lists[l].result.value[2].url
        /\ lists[l].result.value[1].url # << >>
        /\ lists[l].result.value[2].url # << >>

----------------------------------------------------------------------------
(* The gallery and the outcome of deleteImage *)

\* C24: when deleteImage resolves, handleDelete takes exactly the deleted
\* image, matched by id, from the displayed list and keeps every other
\* image in the same order; when it rejects, handleDelete raises an alert
\* carrying the error message and leaves the displayed list as it is.
C24_GalleryReactsToOutcome ==
    [][\A h \in DOMAIN handleDeletes :
        HandleDeleteSettled(h) =>
            LET result == deletes[handleDeletes[h].del].result
                id == handleDeletes[h].image.id
                kept == {i \in DOMAIN images : images[i].id # id}
            IN  /\ result.state \in {"resolved", "rejected"}
                /\ result.state = "resolved" =>
                        /\ alerts' = alerts
                        /\ Len(images') = Cardinality(kept)
                        /\ \A i \in DOMAIN images' : images'[i].id # id
                        /\ \A i \in kept : \E j \in DOMAIN images' : images'[j] = images[i]
                        /\ \A i, j \in DOMAIN images' :
                                i < j => \E a, b \in kept :
                                            /\ a < b
                                            /\ images[a] = images'[i]
                                            /\ images[b] = images'[j]
                /\ result.state = "rejected" =>
                        /\ images' = images
                        /\ Len(alerts') = Len(alerts) + 1
                        /\ alerts'[Len(alerts')] =
                                <<"Failed to delete image: ">> \o result.message
                        /\ Len(result.message) > 1]_vars

\* one delete was rejected and alerted, another resolved and took the newer
\* of the two images from the list, and the older image is still shown
C24_Witness ==
    /\ Len(alerts) = 1
    /\ alerts[1] = <<"Failed to delete image: ", "Failed to delete image from storage: ">>
                        \o RemoveErrorMessage
    /\ \E h \in DOMAIN handleDeletes :
            /\ handleDeletes[h].pc = "done"
            /\ deletes[handleDeletes[h].del].result.state = "resolved"
            /\ handleDeletes[h].image.id = 3
    /\ Len(images) = 1
    /\ images[1].id = 2

\* C25: the gallery never has two calls of deleteImage outstanding for the
\* same stored image.
C25_OneDeletePerImage ==
    \A h1, h2 \in DOMAIN handleDeletes :
        ( /\ h1 # h2
          /\ handleDeletes[h1].pc = "await"
          /\ handleDeletes[h2].pc = "await"
          /\ deletes[handleDeletes[h1].del].pc # "done"
          /\ deletes[handleDeletes[h2].del].pc # "done" ) =>
            handleDeletes[h1].image.storage_path # handleDeletes[h2].image.storage_path

\* the images a resolved deleteImage made handleDelete take from the list
Removed ==
    {handleDeletes[h].image.id : h \in
        {k \in DOMAIN handleDeletes :
            /\ handleDeletes[k].pc = "done"
            /\ deletes[handleDeletes[k].del].result.state = "resolved"}}

\* C30: an image that a resolved deleteImage took from the displayed list
\* is not displayed again (no image is saved again here), whatever load of
\* the gallery was in flight when the delete completed.
C30_RemovedStaysRemoved ==
    \A i \in DOMAIN images : images[i].id \notin Removed

----------------------------------------------------------------------------
(* A reset while a send is in flight *)

\* the rows send s inserted are in the table: no reset has deleted them
RowsInTable(s) ==
    /\ sends[s].insert = "ok"
    /\ SucceededResets \subseteq sends[s].after

\* C26: after a reset has succeeded and every call outstanding then has
\* finished, chat_history holds no row of an exchange whose handleSend was
\* called before the reset, whatever send was in flight during the reset.
C26_NoRowOfEarlierSend ==
    \A c \in DOMAIN clears : \A s \in DOMAIN sends :
        ( /\ clears[c].result = "ok"
          /\ clears[c].pc = "done"
          /\ s <= clears[c].sendsBefore
          /\ sends[s].pc = "done" ) =>
            ~RowsInTable(s)

\* C27: every bot turn a handleSend appends to the transcript, reply or
\* fallback, stands right after the user turn of the same handleSend, also
\* when a reset or initChat has completed while that send was in flight.
C27_ReplyFollowsItsQuestion ==
    [][\A s \in DOMAIN sends : \A o \in {"ok", "fail"} :
        SendGateway(s, o) =>
            /\ Len(messages') >= 2
            /\ messages'[Len(messages')].sender = "bot"
            /\ messages'[Len(messages') - 1] = Message("user", sends[s].text)]_vars

\* C28: a handleSend accepted after a reset has replaced the transcript by
\* the cleared turn is not sent to the context that was live before that
\* reset.
C28_NoSendToOldContext ==
    \A c \in DOMAIN clears : \A s \in DOMAIN sends :
        (clears[c].result = "ok" /\ s > clears[c].sendsAtClear) =>
            sends[s].ctx # clears[c].oldCtx

----------------------------------------------------------------------------
(* The history read back after a fresh mount *)

\* the exchanges of the sends, in the order of the sends
RECURSIVE ExchangesOf(_)
ExchangesOf(n) ==
    IF n = 0 THEN << >>
    ELSE ExchangesOf(n - 1) \o
            <<Message("user", sends[n].text), Message("bot", sends[n].reply)>>

\* C29: after N serial sends whose gateway calls and inserts all succeeded,
\* the initChat of a fresh mount for the same user yields a transcript and
\* a seed of exactly those 2N turns in the order of the exchanges, each user
\* turn right before its reply (the two rows of an exchange are inserted in
\* one batch and the read orders by created_at alone).
C29_RoundTrip ==
    [][\A r \in DOMAIN reinits :
        ( /\ reinits[r].pc = "select"
          /\ reinits'[r].pc = "done"
          /\ reinits'[r].result.err = << >>
          /\ sends # << >>
          /\ SelectHistory(chatRows, reinits[r].user) = ExchangesOf(Len(sends))
          /\ clears = << >>
          /\ \A s \in DOMAIN sends :
                /\ sends[s].pc = "done"
                /\ sends[s].gw = "ok"
                /\ sends[s].insert = "ok" ) =>
            /\ messages' = ExchangesOf(Len(sends))
            /\ contexts'[chat'].seed = FormatHistory(ExchangesOf(Len(sends)))
            /\ Len(messages') = 2 * Len(sends)]_vars

=============================================================================
